---- MODULE Spec2Model ----
(***************************************************************************)
(* Model of the check plugin oposs_zpool_iostat: the section parser, the   *)
(* service discovery and the check function with its threshold evaluation. *)
(* Python floats are modelled as IEEE-754 binary64 values (53-bit          *)
(* significands, round to nearest even), so that unit conversions are      *)
(* computed as the interpreter computes them.  A significand is held as a  *)
(* sequence of 15-bit limbs, most significant first.                       *)
(***************************************************************************)
EXTENDS Integers, Sequences, FiniteSets, TLC

(***************************************************************************)
(* Numbers                                                                 *)
(***************************************************************************)

\* Significand width of a Python float (binary64).
Precision == 53

\* Width of one limb of a multi-limb natural number.
LimbBits == 15

Base == 2 ^ LimbBits

\* Limbs appended to a numerator before a division, so that the quotient
\* carries more than Precision + 1 bits (the divisors are below 2^30).
GuardLimbs == 3

RECURSIVE Zeros(_)
Zeros(k) == IF k <= 0 THEN <<>> ELSE <<0>> \o Zeros(k - 1)

RECURSIVE Strip(_)
\* x without its leading zero limbs.
Strip(x) == IF x = <<>> \/ Head(x) # 0 THEN x ELSE Strip(Tail(x))

RECURSIVE BigOfInt(_)
\* The limbs of a natural number.
BigOfInt(n) == IF n = 0 THEN <<>> ELSE BigOfInt(n \div Base) \o <<n % Base>>

RECURSIVE BigDivSmall(_, _, _)
\* Division of the limbs x by d < 2^16, from the running remainder r.
BigDivSmall(x, d, r) ==
    IF x = <<>> THEN [q |-> <<>>, r |-> r]
    ELSE LET t == r * Base + Head(x)
             rest == BigDivSmall(Tail(x), d, t % d)
         IN  [q |-> <<t \div d>> \o rest.q, r |-> rest.r]

RECURSIVE BigDivAll(_, _, _)
\* Floor division of x by the product of the factors ds; sticky records a
\* nonzero remainder.
BigDivAll(x, ds, sticky) ==
    IF ds = <<>> THEN [q |-> x, sticky |-> sticky]
    ELSE LET one == BigDivSmall(x, Head(ds), 0)
         IN  BigDivAll(one.q, Tail(ds), sticky \/ one.r # 0)

RECURSIVE BigMulSmall(_, _, _)
\* The limbs x times k (k <= 1000), carry from the least significant limb.
BigMulSmall(x, k, carry) ==
    IF x = <<>> THEN BigOfInt(carry)
    ELSE LET t == x[Len(x)] * k + carry
         IN  BigMulSmall(SubSeq(x, 1, Len(x) - 1), k, t \div Base) \o <<t % Base>>

RECURSIVE BigIncrement(_)
BigIncrement(x) ==
    IF x = <<>> THEN <<1>>
    ELSE IF x[Len(x)] + 1 < Base THEN SubSeq(x, 1, Len(x) - 1) \o <<x[Len(x)] + 1>>
    ELSE BigIncrement(SubSeq(x, 1, Len(x) - 1)) \o <<0>>

\* Number of bits of one limb.
LimbLength(l) == CHOOSE b \in 0..LimbBits : l < 2 ^ b /\ (b = 0 \/ l >= 2 ^ (b - 1))

\* Number of bits of a stripped natural number.
BitLength(x) == IF x = <<>> THEN 0 ELSE LimbLength(Head(x)) + LimbBits * (Len(x) - 1)

\* x shifted right by t bits: the shifted limbs and whether a 1 was shifted out.
ShiftRight(x, t) ==
    LET a == t \div LimbBits
        b == t % LimbBits
        n == IF a >= Len(x) THEN 0 ELSE Len(x) - a
        y == SubSeq(x, 1, n)
        Limb(i) == IF i = 0 THEN 0 ELSE y[i]
    IN  [v |-> [i \in 1..n |-> (Limb(i - 1) % (2 ^ b)) * (2 ^ (LimbBits - b))
                               + (y[i] \div (2 ^ b))],
         lost |-> (\E i \in (n + 1)..Len(x) : x[i] # 0)
                  \/ (n > 0 /\ y[n] % (2 ^ b) # 0)]

\* x shifted left by t bits.
ShiftLeft(x, t) ==
    ShiftRight(x \o Zeros(t \div LimbBits + 1), LimbBits - (t % LimbBits)).v

\* A number is an int, a float or the not-a-number float.
PyInt(n) == [t |-> "int", n |-> n, e |-> 0, m |-> <<>>]
PyFloat(e, m) == [t |-> "float", n |-> 0, e |-> e, m |-> m]
FloatZero == [t |-> "float", n |-> 0, e |-> 0, m |-> <<>>]
NaN == [t |-> "nan", n |-> 0, e |-> 0, m |-> <<>>]

\* The float nearest to x * 2^lsbExp (sticky: a nonzero part below x), ties
\* to even: the significand m has Precision bits and the value is
\* m * 2^(e - Precision + 1).
RoundToFloat(x, lsbExp, sticky) ==
    LET n == Strip(x)
        len == BitLength(n)
        top == lsbExp + len - 1
    IN  IF n = <<>> THEN FloatZero
        ELSE IF len <= Precision
             THEN PyFloat(top, Strip(ShiftLeft(n, Precision - len)))
        ELSE LET g == ShiftRight(n, len - Precision - 1)
                 guard == g.v[Len(g.v)] % 2
                 kept == Strip(ShiftRight(g.v, 1).v)
                 up == guard = 1 /\ (sticky \/ g.lost \/ kept[Len(kept)] % 2 = 1)
                 inc == Strip(BigIncrement(kept))
             IN  IF ~up THEN PyFloat(top, kept)
                 ELSE IF BitLength(inc) > Precision
                      THEN PyFloat(top + 1, Strip(ShiftRight(inc, 1).v))
                      ELSE PyFloat(top, inc)

\* float(n) for an int n >= 0.
IntToFloat(n) == RoundToFloat(BigOfInt(n), 0, FALSE)

ToFloat(x) == IF x.t = "int" THEN IntToFloat(x.n) ELSE x

\* The factors (each below 2^16) the long division takes a divisor in.
Factors(d) == IF d = 1000000000 THEN <<1000, 1000, 1000>> ELSE <<d>>

\* x / d for a number x >= 0 and an int d > 0: Python's true division,
\* correctly rounded.
TrueDiv(x, d) ==
    LET f == ToFloat(x)
        res == BigDivAll(f.m \o Zeros(GuardLimbs), Factors(d), FALSE)
    IN  IF f.m = <<>> THEN FloatZero
        ELSE RoundToFloat(res.q, f.e - (Precision - 1) - GuardLimbs * LimbBits,
                          res.sticky)

\* x * k for a number x >= 0 and an int k > 0, correctly rounded.
FloatMul(x, k) ==
    LET f == ToFloat(x)
    IN  IF f.m = <<>> THEN FloatZero
        ELSE RoundToFloat(BigMulSmall(f.m, k, 0), f.e - (Precision - 1), FALSE)

RECURSIVE BigGe(_, _)
\* Lexicographic >= on limb sequences of one length.
BigGe(a, b) ==
    IF a = <<>> THEN TRUE
    ELSE IF Head(a) # Head(b) THEN Head(a) > Head(b)
    ELSE BigGe(Tail(a), Tail(b))

\* x >= y on floats >= 0.
FloatGe(x, y) ==
    IF y.m = <<>> THEN TRUE
    ELSE IF x.m = <<>> THEN FALSE
    ELSE x.e > y.e \/ (x.e = y.e /\ BigGe(x.m, y.m))

\* a >= b on numbers >= 0 (int with int exactly, otherwise as floats).
NumGe(a, b) ==
    IF a.t = "nan" \/ b.t = "nan" THEN FALSE
    ELSE IF a.t = "int" /\ b.t = "int" THEN a.n >= b.n
    ELSE FloatGe(ToFloat(a), ToFloat(b))

(***************************************************************************)
(* Python values, raw agent text and JSON decoding                         *)
(***************************************************************************)

PyNone == [t |-> "none"]
PyStr(s) == [t |-> "str", s |-> s]
PyDict(d) == [t |-> "dict", d |-> d]

IsNumber(v) == v.t \in {"int", "float", "nan"}

\* A field of an agent line is a string.  Plain(s) is the text s, which is
\* not a JSON document; JsonObject(d) is the text of a JSON object that
\* decodes to the dict d; JsonOther(s) is the text s of any other JSON
\* document (an array, a number, ...).
Plain(s) == [k |-> "plain", s |-> s]
JsonObject(d) == [k |-> "object", d |-> d]
JsonOther(s) == [k |-> "other", s |-> s]

\* str(e) of the JSONDecodeError json.loads raises on a text that starts
\* with a letter.
DecodeErrorMessage == "Expecting value: line 1 column 1 (char 0)"

\* json.loads(text): the decoded value, or the JSONDecodeError raised.
json_loads(text) ==
    CASE text.k = "object" -> [ok |-> TRUE, value |-> PyDict(text.d)]
      [] text.k = "other" -> [ok |-> TRUE, value |-> [t |-> "json", s |-> text.s]]
      [] OTHER -> [ok |-> FALSE, value |-> PyStr(Plain(DecodeErrorMessage))]

\* A dict keeps its keys in insertion order: keys is that order, val the
\* mapping.
EmptyDict == [keys |-> <<>>, val |-> <<>>]

HasKey(d, key) == \E i \in 1..Len(d.keys) : d.keys[i] = key

\* d[key]
Lookup(d, key) == d.val[CHOOSE i \in 1..Len(d.keys) : d.keys[i] = key]

\* d.get(key, default)
Get(d, key, default) == IF HasKey(d, key) THEN Lookup(d, key) ELSE default

\* d[key] = value: a new key is appended, an existing one keeps its place.
SetItem(d, key, value) ==
    IF HasKey(d, key)
    THEN [d EXCEPT !.val[CHOOSE i \in 1..Len(d.keys) : d.keys[i] = key] = value]
    ELSE [keys |-> Append(d.keys, key), val |-> Append(d.val, value)]

\* The dict literal {key: value}.
Dict1(key, value) == [keys |-> <<key>>, val |-> <<value>>]

\* The names of the model that start with an underscore: name.startswith('_').
UnderscoreNames == {"_parse_error", "_error"}
StartsWithUnderscore(name) == name \in UnderscoreNames

(***************************************************************************)
(* parse_oposs_zpool_iostat and discover_oposs_zpool_iostat                *)
(***************************************************************************)

\* ParseLine with a payload that does not decode skipped.
ParseLineSkipping(pools, line) ==
    IF Len(line) < 2 THEN pools
    ELSE IF line[1] = Plain("ERROR")
         THEN SetItem(pools, "_parse_error", PyStr(line[2]))
    ELSE LET pool_name == line[1].s
             pool_data == json_loads(line[2])
         IN  IF pool_data.ok
             THEN IF pool_data.value.t = "dict"
                  THEN SetItem(pools, pool_name, pool_data.value)
                  ELSE SetItem(pools, pool_name,
                               PyDict(Dict1("_error", PyStr(Plain("Invalid JSON structure")))))
             ELSE pools

\* ParseLine with the error token tested before the number of fields.
ParseLineErrorFirst(pools, line) ==
    IF Len(line) >= 1 /\ line[1] = Plain("ERROR")
    THEN SetItem(pools, "_parse_error",
                 PyStr(IF Len(line) > 1 THEN line[2] ELSE Plain("Unknown error")))
    ELSE IF Len(line) < 2 THEN pools
    ELSE LET pool_name == line[1].s
             pool_data == json_loads(line[2])
         IN  IF pool_data.ok
             THEN IF pool_data.value.t = "dict"
                  THEN SetItem(pools, pool_name, pool_data.value)
                  ELSE SetItem(pools, pool_name,
                               PyDict(Dict1("_error", PyStr(Plain("Invalid JSON structure")))))
             ELSE SetItem(pools, pool_name,
                          PyDict(Dict1("_error",
                              PyStr([k |-> "fmt", s |-> "JSON parsing failed: ",
                                     arg |-> pool_data.value.s]))))

\* ParseLine with the pools parsed so far dropped at an ERROR entry.
ParseLineErrorResets(pools, line) ==
    IF Len(line) < 2 THEN pools
    ELSE IF line[1] = Plain("ERROR")
         THEN Dict1("_parse_error", PyStr(line[2]))
    ELSE LET pool_name == line[1].s
             pool_data == json_loads(line[2])
         IN  IF pool_data.ok
             THEN IF pool_data.value.t = "dict"
                  THEN SetItem(pools, pool_name, pool_data.value)
                  ELSE SetItem(pools, pool_name,
                               PyDict(Dict1("_error", PyStr(Plain("Invalid JSON structure")))))
             ELSE SetItem(pools, pool_name,
                          PyDict(Dict1("_error",
                              PyStr([k |-> "fmt", s |-> "JSON parsing failed: ",
                                     arg |-> pool_data.value.s]))))

\* One iteration of the loop over string_table: the pools dict after line.
ParseLine(pools, line) ==
    IF Len(line) < 2 THEN pools
    ELSE IF line[1] = Plain("ERROR")
         THEN SetItem(pools, "_parse_error", PyStr(line[2]))
    ELSE LET pool_name == line[1].s
             pool_data == json_loads(line[2])
         IN  IF pool_data.ok
             THEN IF pool_data.value.t = "dict"
                  THEN SetItem(pools, pool_name, pool_data.value)
                  ELSE SetItem(pools, pool_name,
                               PyDict(Dict1("_error", PyStr(Plain("Invalid JSON structure")))))
             ELSE SetItem(pools, pool_name,
                          PyDict(Dict1("_error",
                              PyStr([k |-> "fmt", s |-> "JSON parsing failed: ",
                                     arg |-> pool_data.value.s]))))

RECURSIVE ParseFrom(_, _)
ParseFrom(pools, lines) ==
    IF lines = <<>> THEN pools
    ELSE ParseFrom(ParseLine(pools, Head(lines)), Tail(lines))

parse_oposs_zpool_iostat(string_table) == ParseFrom(EmptyDict, string_table)

Service(item) == [kind |-> "Service", item |-> item]

RECURSIVE DiscoverFrom(_, _)
DiscoverFrom(section, i) ==
    IF i > Len(section.keys) THEN <<>>
    ELSE LET pool_name == section.keys[i]
             pool_data == section.val[i]
         IN  (IF ~StartsWithUnderscore(pool_name) /\ pool_data.t = "dict"
                 /\ ~HasKey(pool_data.d, "_error")
              THEN <<Service(pool_name)>> ELSE <<>>)
             \o DiscoverFrom(section, i + 1)

discover_oposs_zpool_iostat(section) == DiscoverFrom(section, 1)

(***************************************************************************)
(* Levels, results and metrics                                             *)
(***************************************************************************)

\* A levels parameter as SimpleLevels produces it: None, ("no_levels", None)
\* or ("fixed", (warn, crit)).
NoLevels == [t |-> "levels", kind |-> "no_levels"]
Fixed(warn, crit) == [t |-> "levels", kind |-> "fixed", warn |-> warn, crit |-> crit]

\* bool(levels_param): None is false, a tuple is true.
Truthy(levels_param) == levels_param.t # "none"

Result(state, summary) == [kind |-> "Result", state |-> state, summary |-> summary]
Metric(name, value) ==
    [kind |-> "Metric", name |-> name, value |-> value, levels |-> PyNone,
     boundaries |-> PyNone]
MetricWith(name, value, levels, boundaries) ==
    [kind |-> "Metric", name |-> name, value |-> value, levels |-> levels,
     boundaries |-> boundaries]
\* The exception that ends the generator.
Raise(exc) == [kind |-> "Raise", exc |-> exc]

\* Metric(name, value) as the check yields it: the constructor rejects a
\* value that is not a number.
YieldMetric(name, value) ==
    IF IsNumber(value) THEN <<Metric(name, value)>> ELSE <<Raise("TypeError")>>

\* The state check_levels gives value under the upper levels.
LevelsState(value, levels_upper) ==
    IF levels_upper.t = "levels" /\ levels_upper.kind = "fixed"
    THEN IF NumGe(value, levels_upper.crit) THEN "CRIT"
         ELSE IF NumGe(value, levels_upper.warn) THEN "WARN"
         ELSE "OK"
    ELSE "OK"

\* check_levels(value, levels_upper=..., metric_name=..., label=...,
\* boundaries=...): one result, whose summary renders the value under the
\* label, then the metric.
check_levels(value, levels_upper, metric_name, label, boundaries) ==
    IF ~IsNumber(value) THEN <<Raise("TypeError")>>
    ELSE << Result(LevelsState(value, levels_upper),
                   [fmt |-> "{label}: {value}", label |-> label, value |-> value]),
            MetricWith(metric_name, value,
                       IF levels_upper.t = "levels" /\ levels_upper.kind = "fixed"
                       THEN levels_upper ELSE PyNone,
                       boundaries) >>

\* _extract_levels
_extract_levels(levels_param) == levels_param

NsPerSecond == 1000000000
MsPerSecond == 1000

\* _convert_ms_levels_to_seconds
_convert_ms_levels_to_seconds(levels_param) ==
    IF ~Truthy(levels_param) THEN PyNone
    ELSE IF levels_param.kind = "fixed"
         THEN Fixed(TrueDiv(levels_param.warn, MsPerSecond),
                    TrueDiv(levels_param.crit, MsPerSecond))
    ELSE levels_param

\* NormalizeWait with a measured 0 reported as absent.
NormalizeWaitZeroAbsent(value_ns) ==
    IF value_ns.n # 0 THEN TrueDiv(value_ns, NsPerSecond) ELSE NaN

\* value_ns / 1e9 if value_ns != 0 else 0
NormalizeWait(value_ns) ==
    IF value_ns.n # 0 THEN TrueDiv(value_ns, NsPerSecond) ELSE PyInt(0)

\* _check_wait_time_metric with an absent value under configured levels
\* reported as UNKNOWN.
CheckWaitUnknownWhenAbsent(value_ns, levels_param, metric_name, label) ==
    IF value_ns.t = "none"
    THEN (IF Truthy(levels_param)
          THEN <<Result("UNKNOWN", [fmt |-> "{label}: {value}", label |-> label,
                                    value |-> NaN])>>
          ELSE <<>>)
         \o <<Metric(metric_name \o "_s", NaN)>>
    ELSE IF ~IsNumber(value_ns) THEN <<Raise("TypeError")>>
    ELSE LET value_s == NormalizeWait(value_ns)
         IN  IF Truthy(levels_param)
             THEN check_levels(value_s, _convert_ms_levels_to_seconds(levels_param),
                               metric_name \o "_s", label, PyNone)
             ELSE <<Metric(metric_name \o "_s", value_s)>>

\* _check_wait_time_metric
_check_wait_time_metric(value_ns, levels_param, metric_name, label) ==
    IF value_ns.t = "none" THEN <<Metric(metric_name \o "_s", NaN)>>
    ELSE IF ~IsNumber(value_ns) THEN <<Raise("TypeError")>>
    ELSE LET value_s == NormalizeWait(value_ns)
         IN  IF Truthy(levels_param)
             THEN check_levels(value_s, _convert_ms_levels_to_seconds(levels_param),
                               metric_name \o "_s", label, PyNone)
             ELSE <<Metric(metric_name \o "_s", value_s)>>

(***************************************************************************)
(* check_oposs_zpool_iostat                                                *)
(***************************************************************************)

\* params.get(name)
ParamGet(params, name) == IF name \in DOMAIN params THEN params[name] ELSE PyNone

Raised(yields) == yields # <<>> /\ yields[Len(yields)].kind = "Raise"

RECURSIVE Chain(_)
\* The yields of consecutive statements: an exception ends the generator.
Chain(parts) ==
    IF parts = <<>> THEN <<>>
    ELSE IF Raised(Head(parts)) THEN Head(parts)
    ELSE Head(parts) \o Chain(Tail(parts))

\* LevelsOrMetric with the levels left out of the call of check_levels.
LevelsOrMetricDropped(value, levels_param, metric_name, label) ==
    IF Truthy(levels_param)
    THEN check_levels(value, PyNone, metric_name, label, PyNone)
    ELSE YieldMetric(metric_name, value)

\* LevelsOrMetric with check_levels called whether levels are configured or not.
LevelsOrMetricAlways(value, levels_param, metric_name, label) ==
    check_levels(value, levels_param, metric_name, label, PyNone)

\* LevelsOrMetric with the levels converted as those of a wait time are.
LevelsOrMetricConverted(value, levels_param, metric_name, label) ==
    IF Truthy(levels_param)
    THEN check_levels(value, _convert_ms_levels_to_seconds(levels_param), metric_name,
                      label, PyNone)
    ELSE YieldMetric(metric_name, value)

\* The block repeated for the operation and throughput metrics and used in
\* the queue depth loop: check_levels when levels are configured, the bare
\* metric otherwise.
LevelsOrMetric(value, levels_param, metric_name, label) ==
    IF Truthy(levels_param)
    THEN check_levels(value, levels_param, metric_name, label, PyNone)
    ELSE YieldMetric(metric_name, value)

Percent == 100

\* StorageBlock with the utilization left as a fraction.
StorageBlockFraction(alloc, free, params) ==
    IF alloc.t # "int" \/ free.t # "int" THEN <<Raise("TypeError")>>
    ELSE LET total == alloc.n + free.n
         IN  IF total > 0
             THEN check_levels(TrueDiv(alloc, total),
                               ParamGet(params, "storage_levels"),
                               "storage_used_percent", "Storage utilization",
                               <<IntToFloat(0), IntToFloat(100)>>)
             ELSE <<>>

\* StorageBlock with the utilization evaluated only under configured levels.
StorageBlockWhenLevels(alloc, free, params) ==
    IF alloc.t # "int" \/ free.t # "int" THEN <<Raise("TypeError")>>
    ELSE LET total == alloc.n + free.n
         IN  IF total > 0 /\ Truthy(ParamGet(params, "storage_levels"))
             THEN check_levels(FloatMul(TrueDiv(alloc, total), Percent),
                               ParamGet(params, "storage_levels"),
                               "storage_used_percent", "Storage utilization",
                               <<IntToFloat(0), IntToFloat(100)>>)
             ELSE <<>>

\* StorageBlock with an empty pool evaluated as 0% used.
StorageBlockZeroTotal(alloc, free, params) ==
    IF alloc.t # "int" \/ free.t # "int" THEN <<Raise("TypeError")>>
    ELSE LET total == alloc.n + free.n
         IN  check_levels(IF total > 0 THEN FloatMul(TrueDiv(alloc, total), Percent)
                          ELSE FloatZero,
                          ParamGet(params, "storage_levels"),
                          "storage_used_percent", "Storage utilization",
                          <<IntToFloat(0), IntToFloat(100)>>)

\* Storage capacity: total = alloc + free, and the utilization when total > 0.
StorageBlock(alloc, free, params) ==
    IF alloc.t # "int" \/ free.t # "int" THEN <<Raise("TypeError")>>
    ELSE LET total == alloc.n + free.n
         IN  IF total > 0
             THEN check_levels(FloatMul(TrueDiv(alloc, total), Percent),
                               ParamGet(params, "storage_levels"),
                               "storage_used_percent", "Storage utilization",
                               <<IntToFloat(0), IntToFloat(100)>>)
             ELSE <<>>

Max(a, b) == IF a >= b THEN a ELSE b

\* DiskWaitBlock with an absent component read as 0.
DiskWaitBlockPartial(pool_data, params) ==
    LET disk_wait_levels == ParamGet(params, "disk_wait_levels")
        disk_read_wait_ns == Get(pool_data, "disk_read_wait", PyInt(0))
        disk_write_wait_ns == Get(pool_data, "disk_write_wait", PyInt(0))
    IN  IF Truthy(disk_wait_levels)
        THEN LET max_disk_wait_ns == Max(disk_read_wait_ns.n, disk_write_wait_ns.n)
             IN  IF max_disk_wait_ns > 0
                 THEN _check_wait_time_metric(PyInt(max_disk_wait_ns), disk_wait_levels,
                                              "disk_wait_max", "Disk wait time")
                 ELSE <<>>
        ELSE <<>>

\* The combined disk wait, when disk_wait_levels is configured.
DiskWaitBlock(pool_data, params) ==
    LET disk_wait_levels == ParamGet(params, "disk_wait_levels")
        disk_read_wait_ns == Get(pool_data, "disk_read_wait", PyNone)
        disk_write_wait_ns == Get(pool_data, "disk_write_wait", PyNone)
    IN  IF Truthy(disk_wait_levels)
           /\ disk_read_wait_ns.t # "none" /\ disk_write_wait_ns.t # "none"
        THEN IF disk_read_wait_ns.t # "int" \/ disk_write_wait_ns.t # "int"
             THEN <<Raise("TypeError")>>
             ELSE LET max_disk_wait_ns == Max(disk_read_wait_ns.n, disk_write_wait_ns.n)
                  IN  IF max_disk_wait_ns > 0
                      THEN _check_wait_time_metric(PyInt(max_disk_wait_ns),
                                                   disk_wait_levels,
                                                   "disk_wait_max", "Disk wait time")
                      ELSE <<>>
        ELSE <<>>

queue_wait_metrics ==
    << <<"syncq_read_wait", "syncq_read_wait_levels", "Sync Queue Read Wait">>,
       <<"syncq_write_wait", "syncq_write_wait_levels", "Sync Queue Write Wait">>,
       <<"asyncq_read_wait", "asyncq_read_wait_levels", "Async Queue Read Wait">>,
       <<"asyncq_write_wait", "asyncq_write_wait_levels", "Async Queue Write Wait">>,
       <<"scrub_wait", "scrub_wait_levels", "Scrub Wait">>,
       <<"trim_wait", "trim_wait_levels", "Trim Wait">>,
       <<"rebuild_wait", "rebuild_wait_levels", "Rebuild Wait">> >>

queue_depth_metrics ==
    << <<"syncq_read_pend", "syncq_read_pend_levels">>,
       <<"syncq_read_activ", "syncq_read_activ_levels">>,
       <<"syncq_write_pend", "syncq_write_pend_levels">>,
       <<"syncq_write_activ", "syncq_write_activ_levels">>,
       <<"asyncq_read_pend", "asyncq_read_pend_levels">>,
       <<"asyncq_read_activ", "asyncq_read_activ_levels">>,
       <<"asyncq_write_pend", "asyncq_write_pend_levels">>,
       <<"asyncq_write_activ", "asyncq_write_activ_levels">>,
       <<"scrubq_read_pend", "scrubq_read_pend_levels">>,
       <<"scrubq_read_activ", "scrubq_read_activ_levels">>,
       <<"trimq_write_pend", "trimq_write_pend_levels">>,
       <<"trimq_write_activ", "trimq_write_activ_levels">>,
       <<"rebuildq_write_pend", "rebuildq_write_pend_levels">>,
       <<"rebuildq_write_activ", "rebuildq_write_activ_levels">> >>

\* One iteration of the loop over queue_wait_metrics.
QueueWaitStep(entry, pool_data, params) ==
    _check_wait_time_metric(Get(pool_data, entry[1], PyNone), ParamGet(params, entry[2]),
                            entry[1], entry[3])

\* metric_name.replace('_', ' ').title()
Title(metric_name) == "title:" \o metric_name

\* One iteration of the loop over queue_depth_metrics.
QueueDepthStep(entry, pool_data, params) ==
    LET value == Get(pool_data, entry[1], PyNone)
    IN  IF value.t = "none" THEN <<Metric(entry[1], NaN)>>
        ELSE LevelsOrMetric(value, ParamGet(params, entry[2]), entry[1], Title(entry[1]))

\* The statements after the error handling, for the dict pool_data.
CheckBody(pool_data, params) ==
    LET read_ops == Get(pool_data, "read_ops", PyInt(0))
        write_ops == Get(pool_data, "write_ops", PyInt(0))
        read_bytes == Get(pool_data, "read_bytes", PyInt(0))
        write_bytes == Get(pool_data, "write_bytes", PyInt(0))
        alloc == Get(pool_data, "alloc", PyInt(0))
        free == Get(pool_data, "free", PyInt(0))
    IN  Chain(<< StorageBlock(alloc, free, params),
                 LevelsOrMetric(read_ops, ParamGet(params, "read_ops_levels"),
                                "read_ops", "Read operations"),
                 LevelsOrMetric(write_ops, ParamGet(params, "write_ops_levels"),
                                "write_ops", "Write operations"),
                 LevelsOrMetric(read_bytes, ParamGet(params, "read_throughput_levels"),
                                "read_throughput", "Read throughput"),
                 LevelsOrMetric(write_bytes, ParamGet(params, "write_throughput_levels"),
                                "write_throughput", "Write throughput"),
                 YieldMetric("allocated", alloc),
                 YieldMetric("free", free),
                 _check_wait_time_metric(Get(pool_data, "read_wait", PyNone),
                                         ParamGet(params, "read_wait_levels"),
                                         "read_wait", "Read wait time"),
                 _check_wait_time_metric(Get(pool_data, "write_wait", PyNone),
                                         ParamGet(params, "write_wait_levels"),
                                         "write_wait", "Write wait time"),
                 _check_wait_time_metric(Get(pool_data, "disk_read_wait", PyNone), PyNone,
                                         "disk_read_wait", "Disk read wait time"),
                 _check_wait_time_metric(Get(pool_data, "disk_write_wait", PyNone), PyNone,
                                         "disk_write_wait", "Disk write wait time"),
                 DiskWaitBlock(pool_data, params) >>
              \o [i \in 1..Len(queue_wait_metrics) |->
                    QueueWaitStep(queue_wait_metrics[i], pool_data, params)]
              \o [i \in 1..Len(queue_depth_metrics) |->
                    QueueDepthStep(queue_depth_metrics[i], pool_data, params)])

\* check_oposs_zpool_iostat with a missing pool evaluated as an empty payload.
CheckMissingAsEmpty(item, params, section) ==
    IF HasKey(section, "_parse_error")
    THEN <<Result("UNKNOWN", [fmt |-> "Parse error: {arg}", item |-> "",
                              arg |-> Lookup(section, "_parse_error")])>>
    ELSE LET pool_data == Get(section, item, PyDict(EmptyDict)).d
         IN  IF HasKey(pool_data, "_error")
             THEN <<Result("UNKNOWN", [fmt |-> "Pool {item} error: {arg}", item |-> item,
                                       arg |-> Lookup(pool_data, "_error")])>>
             ELSE CheckBody(pool_data, params)

\* check_oposs_zpool_iostat with the item looked up before the global error.
CheckNotFoundFirst(item, params, section) ==
    IF ~HasKey(section, item)
    THEN <<Result("UNKNOWN", [fmt |-> "Pool {item} not found", item |-> item,
                              arg |-> PyNone])>>
    ELSE IF HasKey(section, "_parse_error")
    THEN <<Result("UNKNOWN", [fmt |-> "Parse error: {arg}", item |-> "",
                              arg |-> Lookup(section, "_parse_error")])>>
    ELSE LET pool_data == Lookup(section, item).d
         IN  IF HasKey(pool_data, "_error")
             THEN <<Result("UNKNOWN", [fmt |-> "Pool {item} error: {arg}", item |-> item,
                                       arg |-> Lookup(pool_data, "_error")])>>
             ELSE CheckBody(pool_data, params)

check_oposs_zpool_iostat(item, params, section) ==
    IF HasKey(section, "_parse_error")
    THEN <<Result("UNKNOWN", [fmt |-> "Parse error: {arg}", item |-> "",
                              arg |-> Lookup(section, "_parse_error")])>>
    ELSE IF ~HasKey(section, item)
    THEN <<Result("UNKNOWN", [fmt |-> "Pool {item} not found", item |-> item,
                              arg |-> PyNone])>>
    ELSE LET pool_data == Lookup(section, item).d
         IN  IF HasKey(pool_data, "_error")
             THEN <<Result("UNKNOWN", [fmt |-> "Pool {item} error: {arg}", item |-> item,
                                       arg |-> Lookup(pool_data, "_error")])>>
             ELSE CheckBody(pool_data, params)

(***************************************************************************)
(* Rules and parameters                                                    *)
(***************************************************************************)

\* A number as the user types it into a rule: num / den.
Dec(num, den) == [num |-> num, den |-> den]

\* A rule value: no levels, or fixed levels as typed.
RuleNoLevels == [kind |-> "no_levels"]
RuleFixed(warn, crit) == [kind |-> "fixed", warn |-> warn, crit |-> crit]
\* A caller that passes None for a parameter.
RuleNone == [kind |-> "none"]

\* The parameters whose form is an Integer; the others take a Float.
IntegerParams ==
    {"read_ops_levels", "write_ops_levels", "read_throughput_levels",
     "write_throughput_levels"}
    \cup {queue_depth_metrics[i][2] : i \in 1..Len(queue_depth_metrics)}

ParamNames ==
    IntegerParams
    \cup {"storage_levels", "read_wait_levels", "write_wait_levels", "disk_wait_levels"}
    \cup {queue_wait_metrics[i][2] : i \in 1..Len(queue_wait_metrics)}

\* The Python number a form field holds for the typed number d.
FormNumber(name, d) ==
    IF name \in IntegerParams THEN PyInt(d.num) ELSE TrueDiv(PyInt(d.num), d.den)

\* The levels value SimpleLevels hands to the check for a rule value.
FormLevels(name, rule) ==
    CASE rule.kind = "fixed" ->
             Fixed(FormNumber(name, rule.warn), FormNumber(name, rule.crit))
      [] rule.kind = "no_levels" -> NoLevels
      [] OTHER -> PyNone

check_default_parameters ==
    [name \in ParamNames |->
        IF name = "storage_levels" THEN Fixed(IntToFloat(80), IntToFloat(90))
        ELSE PyNone]

\* The parameters of a check: the defaults, overridden by the rule's values.
MergeParams(rule) ==
    [name \in ParamNames |->
        IF name \in DOMAIN rule THEN FormLevels(name, rule[name])
        ELSE check_default_parameters[name]]

(***************************************************************************)
(* Inputs                                                                  *)
(***************************************************************************)

\* Most lines of one agent output.
MaxLines == 2
\* Largest operation rate, throughput and queue depth, and largest level
\* for them.
MaxCount == 2
\* Most checks of one cycle.
MaxChecks == 2

\* Marks a key left out of a payload.
Absent == -1

\* The dict of the key/value pairs whose value is not Absent.
RECURSIVE Obj(_)
Obj(pairs) ==
    IF pairs = <<>> THEN EmptyDict
    ELSE LET rest == Obj(SubSeq(pairs, 1, Len(pairs) - 1))
             last == pairs[Len(pairs)]
         IN  IF last[2] = Absent THEN rest ELSE SetItem(rest, last[1], PyInt(last[2]))

CountKeys ==
    {"read_ops", "write_ops", "read_bytes", "write_bytes"}
    \cup {queue_depth_metrics[i][1] : i \in 1..Len(queue_depth_metrics)}

LevelledWaitKeys ==
    {"read_wait", "write_wait"}
    \cup {queue_wait_metrics[i][1] : i \in 1..Len(queue_wait_metrics)}

WaitKeys == LevelledWaitKeys \cup {"disk_read_wait", "disk_write_wait"}

\* The levels parameter of a payload key.
ParamOfKey(key) ==
    CASE key = "read_bytes" -> "read_throughput_levels"
      [] key = "write_bytes" -> "write_throughput_levels"
      [] OTHER -> key \o "_levels"

\* The name of the metric of a payload key.
MetricOfKey(key) ==
    CASE key = "read_bytes" -> "read_throughput"
      [] key = "write_bytes" -> "write_throughput"
      [] key = "alloc" -> "allocated"
      [] key \in WaitKeys -> key \o "_s"
      [] OTHER -> key

DecLe(a, b) == a.num * b.den <= b.num * a.den

CountValues == 0..MaxCount
CountRules ==
    {RuleNoLevels}
    \cup {RuleFixed(Dec(p[1], 1), Dec(p[2], 1)) :
            p \in {q \in CountValues \X CountValues : q[1] <= q[2]}}

\* Wait times in nanoseconds, and wait levels in milliseconds.
WaitValues == {0, 69999, 70000, 70001, 999999, 1000000}
WaitMs == {Dec(0, 1), Dec(7, 100), Dec(1, 1)}
WaitRules ==
    {RuleNoLevels}
    \cup {RuleFixed(p[1], p[2]) : p \in {q \in WaitMs \X WaitMs : DecLe(q[1], q[2])}}

\* Capacities in bytes, and storage levels in percent.
AllocValues == {0, 57, 799, 800, 899, 900, 950}
FreeValues == {0, 43, 50, 100, 101, 200, 201}
StorageRules ==
    {RuleNoLevels, RuleNone, RuleFixed(Dec(80, 1), Dec(90, 1)),
     RuleFixed(Dec(57, 1), Dec(95, 1))}

\* The rule that sets one parameter, and the rule that sets none.
Rule1(name, value) == name :> value
NoRule == <<>>

\* The agent output of one pool.
OnePool(name, pool_data) == << <<Plain(name), JsonObject(pool_data)>> >>

Input(table, rule) == [table |-> table, rule |-> rule]

\* Payloads used with every rule: scenario A of the specification, a payload
\* with every recognized key, and the empty object.
ScenarioA == Obj(<< <<"alloc", 800>>, <<"free", 200>>, <<"read_ops", 50>> >>)
ScenarioB == Obj(<< <<"alloc", 950>>, <<"free", 50>> >>)
RECURSIVE WithKeys(_, _, _)
WithKeys(d, keys, value) ==
    IF keys = {} THEN d
    ELSE LET key == CHOOSE k \in keys : TRUE
         IN  WithKeys(SetItem(d, key, PyInt(value)), keys \ {key}, value)
FullPayload == WithKeys(WithKeys(ScenarioA, CountKeys, 1), WaitKeys, 1000000)
GenericPayloads == {ScenarioA, FullPayload, EmptyDict}

SingleRules ==
    {Rule1(ParamOfKey(k), r) : k \in CountKeys, r \in CountRules}
    \cup {Rule1(ParamOfKey(k), r) : k \in LevelledWaitKeys, r \in WaitRules}
    \cup {Rule1("disk_wait_levels", r) : r \in WaitRules}
    \cup {Rule1("storage_levels", r) : r \in StorageRules}

\* The inputs of the evaluation of one pool: a payload with one key (or the
\* two keys of a composite) under the rules for it, the generic payloads
\* under every single rule, and every payload under the defaults.
EvalCount ==
    {Input(OnePool("tank", Obj(<< <<k, v>> >>)), Rule1(ParamOfKey(k), r)) :
        k \in CountKeys, v \in CountValues \cup {Absent}, r \in CountRules}
EvalWait ==
    {Input(OnePool("tank", Obj(<< <<k, v>> >>)), Rule1(ParamOfKey(k), r)) :
        k \in LevelledWaitKeys, v \in WaitValues \cup {Absent}, r \in WaitRules}
EvalDiskWait ==
    {Input(OnePool("tank", Obj(<< <<"disk_read_wait", v>>, <<"disk_write_wait", w>> >>)),
           rule) :
        v \in WaitValues \cup {Absent}, w \in WaitValues \cup {Absent},
        rule \in {NoRule} \cup {Rule1("disk_wait_levels", r) : r \in WaitRules}}
EvalStorage ==
    {Input(OnePool("tank", Obj(<< <<"alloc", a>>, <<"free", f>> >>)), rule) :
        a \in AllocValues \cup {Absent}, f \in FreeValues \cup {Absent},
        rule \in {NoRule} \cup {Rule1("storage_levels", r) : r \in StorageRules}}
EvalGeneric ==
    {Input(OnePool("tank", p), rule) : p \in GenericPayloads, rule \in SingleRules}
EvalInputs == EvalCount \cup EvalWait \cup EvalDiskWait \cup EvalStorage \cup EvalGeneric

\* The inputs of one cycle: up to MaxLines lines, each an ERROR line, a pool
\* line or a line of one field.
Messages == {Plain("disk timeout"), Plain("not-json")}
Payloads ==
    {JsonObject(ScenarioA), JsonObject(ScenarioB), Plain("not-json"), JsonOther("[1]")}
PoolNames == {"tank", "rpool"}
\* Objects the agent does not produce: alloc null, read_ops a string, a key
\* that is no metric, and the key _error.
NullAlloc == SetItem(Obj(<< <<"free", 200>> >>), "alloc", PyNone)
StringOps == SetItem(ScenarioA, "read_ops", PyStr(Plain("fast")))
ForwardPayload == SetItem(ScenarioA, "future_metric", PyInt(7))
SentinelPayload == SetItem(ScenarioB, "_error", PyInt(1))
OddPayloads == {JsonObject(d) : d \in {NullAlloc, StringOps, ForwardPayload, SentinelPayload}}
Lines ==
    {<<Plain("ERROR"), m>> : m \in Messages}
    \cup {<<Plain(n), p>> : n \in PoolNames, p \in Payloads}
    \cup {<<Plain("tank"), p>> : p \in OddPayloads}
    \cup {<<Plain("_parse_error"), p>> : p \in {JsonObject(ScenarioA), Plain("not-json")}}
    \cup {<<Plain("ERROR")>>, <<Plain("tank")>>}
RECURSIVE Tables(_)
Tables(n) ==
    IF n = 0 THEN {<<>>}
    ELSE Tables(n - 1) \cup {Append(t, l) : t \in {u \in Tables(n - 1) : Len(u) = n - 1},
                                             l \in Lines}
CycleRules == {NoRule, Rule1("read_ops_levels", RuleFixed(Dec(40, 1), Dec(50, 1)))}
CycleInputs == {Input(t, r) : t \in Tables(MaxLines), r \in CycleRules}

(***************************************************************************)
(* The state machine: one cycle of agent output is parsed, the services    *)
(* are discovered and the items are checked.                               *)
(***************************************************************************)

VARIABLES
    string_table,   \* the lines of the agent section
    rule,           \* the rule values as typed
    params,         \* the parameters handed to the check
    parsed,         \* whether the section has been parsed
    section,        \* the parsed section
    discovered,     \* whether the discovery has run
    services,       \* the services the discovery yielded
    checked,        \* whether a check has run
    item,           \* the item of the last check
    output,         \* what the last check yielded
    evaluated       \* the items checked so far, in the order of the checks

vars == <<string_table, rule, params, parsed, section, discovered, services,
          checked, item, output, evaluated>>

InitWith(inputs) ==
    /\ \E in \in inputs : string_table = in.table /\ rule = in.rule
    /\ params = MergeParams(rule)
    /\ parsed = FALSE
    /\ section = EmptyDict
    /\ discovered = FALSE
    /\ services = <<>>
    /\ checked = FALSE
    /\ item = ""
    /\ output = <<>>
    /\ evaluated = <<>>

Init == InitWith(CycleInputs)
InitEval == InitWith(EvalInputs)

\* The first fields of the lines, but for the error token, and a name no line has.
Items ==
    ({string_table[i][1].s : i \in {j \in 1..Len(string_table) : Len(string_table[j]) >= 1}}
        \ {"ERROR"}) \cup {"gone"}

Parse ==
    /\ ~parsed
    /\ parsed' = TRUE
    /\ section' = parse_oposs_zpool_iostat(string_table)
    /\ UNCHANGED <<string_table, rule, params, discovered, services, checked, item, output,
                   evaluated>>

Discover ==
    /\ parsed /\ ~discovered
    /\ discovered' = TRUE
    /\ services' = discover_oposs_zpool_iostat(section)
    /\ UNCHANGED <<string_table, rule, params, parsed, section, checked, item, output,
                   evaluated>>

\* Check with the payload of the checked pool emptied by the check.
CheckClearing(i) ==
    /\ parsed
    /\ Len(evaluated) < MaxChecks
    /\ checked' = TRUE
    /\ item' = i
    /\ output' = check_oposs_zpool_iostat(i, params, section)
    /\ evaluated' = Append(evaluated, i)
    /\ section' = IF HasKey(section, i) /\ Lookup(section, i).t = "dict"
                  THEN SetItem(section, i, PyDict(EmptyDict)) ELSE section
    /\ UNCHANGED <<string_table, rule, params, parsed, discovered, services>>

Check(i) ==
    /\ parsed
    /\ Len(evaluated) < MaxChecks
    /\ checked' = TRUE
    /\ item' = i
    /\ output' = check_oposs_zpool_iostat(i, params, section)
    /\ evaluated' = Append(evaluated, i)
    /\ UNCHANGED <<string_table, rule, params, parsed, section, discovered, services>>

CheckItem == \E i \in Items : Check(i)

Next == Parse \/ Discover \/ CheckItem

Spec == Init /\ [][Next]_vars
SpecEval == InitEval /\ [][Next]_vars

(***************************************************************************)
(* Properties                                                              *)
(***************************************************************************)

\* The item is a pool of the section whose payload decoded to an object,
\* and the cycle has no global error.
ValidPool(i) ==
    /\ parsed
    /\ ~HasKey(section, "_parse_error")
    /\ HasKey(section, i)
    /\ ~HasKey(Lookup(section, i).d, "_error")

PoolData(i) == Lookup(section, i).d

\* The yields of the last check by kind.
ResultsOf(yields) == {j \in 1..Len(yields) : yields[j].kind = "Result"}
MetricsOf(yields) == {j \in 1..Len(yields) : yields[j].kind = "Metric"}

\* The results check_levels yielded together with the metric name.
ResultsFor(yields, name) ==
    {yields[j] : j \in {r \in ResultsOf(yields) :
                          /\ r < Len(yields)
                          /\ yields[r + 1].kind = "Metric"
                          /\ yields[r + 1].name = name}}

\* The values of the data points of the metric name.
ValuesOf(yields, name) == {yields[j].value : j \in {m \in MetricsOf(yields) : yields[m].name = name}}

HasFixedRule(name) == name \in DOMAIN rule /\ rule[name].kind = "fixed"

\* The state upper levels (warn, crit), warn <= crit, give: ge_crit and
\* ge_warn say whether the value has reached the level.
Expected(ge_warn, ge_crit) == IF ge_crit THEN "CRIT" ELSE IF ge_warn THEN "WARN" ELSE "OK"

NsPerMs == NsPerSecond \div MsPerSecond

\* C2: a wait time value_ns under fixed levels (warn_ms, crit_ms) is CRIT
\* exactly when value_ns >= crit_ms * 10^6 and WARN or worse exactly when
\* value_ns >= warn_ms * 10^6 (the levels as typed into the rule).
C2_WaitLevelsInNanoseconds ==
    (checked /\ ValidPool(item)) =>
        \A k \in LevelledWaitKeys :
            (HasKey(PoolData(item), k) /\ HasFixedRule(ParamOfKey(k))) =>
                LET value_ns == Lookup(PoolData(item), k).n
                    warn == rule[ParamOfKey(k)].warn
                    crit == rule[ParamOfKey(k)].crit
                    got == ResultsFor(output, MetricOfKey(k))
                IN  /\ Cardinality(got) = 1
                    /\ \A r \in got :
                          /\ r.state = "CRIT" <=> value_ns * crit.den >= crit.num * NsPerMs
                          /\ r.state \in {"WARN", "CRIT"} <=>
                                value_ns * warn.den >= warn.num * NsPerMs

\* A line the parser takes as the global error: the identifier ERROR and a
\* message.
IsErrorLine(line) == Len(line) >= 2 /\ line[1] = Plain("ERROR")

\* C3: when the cycle's lines hold an ERROR entry, every check yields exactly
\* one result, UNKNOWN, whose summary carries the message of an ERROR entry,
\* and no metric.
C3_ErrorEntryReported ==
    (checked /\ \E i \in 1..Len(string_table) : IsErrorLine(string_table[i])) =>
        /\ Len(output) = 1
        /\ output[1].kind = "Result"
        /\ output[1].state = "UNKNOWN"
        /\ \E i \in 1..Len(string_table) :
              /\ IsErrorLine(string_table[i])
              /\ output[1].summary.arg = PyStr(string_table[i][2])

\* A pool line: an identifier other than ERROR and a payload.
IsPoolLine(line) == Len(line) >= 2 /\ line[1] # Plain("ERROR")

\* The payload is not JSON, or is JSON but not an object.
Malformed(payload) == payload.k # "object"

\* The reasons the parser records for a malformed payload.
DecodeFailureReasons ==
    {PyStr(Plain("Invalid JSON structure")),
     PyStr([k |-> "fmt", s |-> "JSON parsing failed: ", arg |-> Plain(DecodeErrorMessage)])}

RemoveAt(t, i) == SubSeq(t, 1, i - 1) \o SubSeq(t, i + 1, Len(t))

\* Line i is a pool line with a malformed payload: the pool is marked, the
\* entries of the other names are those of the lines without line i, and
\* the pool's check yields the one UNKNOWN result with the reason.
MalformedHandled(i) ==
    LET name == string_table[i][1].s
        others == parse_oposs_zpool_iostat(RemoveAt(string_table, i))
    IN  /\ parsed =>
            /\ HasKey(section, name)
            /\ Lookup(section, name).t = "dict"
            /\ HasKey(Lookup(section, name).d, "_error")
            /\ \A j \in 1..Len(section.keys) :
                  section.keys[j] # name =>
                      /\ HasKey(others, section.keys[j])
                      /\ Lookup(others, section.keys[j]) = section.val[j]
        /\ (checked /\ item = name) =>
            /\ Len(output) = 1
            /\ output[1].kind = "Result"
            /\ output[1].state = "UNKNOWN"
            /\ output[1].summary.arg \in DecodeFailureReasons

\* C4 as stated: every pool line with a malformed payload is handled so.
C4_MalformedPayload ==
    \A i \in 1..Len(string_table) :
        (IsPoolLine(string_table[i]) /\ Malformed(string_table[i][2])) => MalformedHandled(i)

\* No later pool line carries the identifier of line i.
LastOfName(i) ==
    \A j \in (i + 1)..Len(string_table) :
        IsPoolLine(string_table[j]) => string_table[j][1] # string_table[i][1]

\* C4, amended: a malformed payload in the last line of its pool name is
\* handled so when the section records no global error.
C4_MalformedPayloadLast ==
    \A i \in 1..Len(string_table) :
        (/\ IsPoolLine(string_table[i]) /\ Malformed(string_table[i][2])
         /\ LastOfName(i)
         /\ ~HasKey(parse_oposs_zpool_iostat(string_table), "_parse_error"))
        => MalformedHandled(i)

\* A malformed pool next to a valid one has been checked.
C4_Witness ==
    /\ checked
    /\ ~HasKey(section, "_parse_error")
    /\ \E i \in 1..Len(string_table) :
          /\ IsPoolLine(string_table[i]) /\ Malformed(string_table[i][2])
          /\ LastOfName(i)
          /\ item = string_table[i][1].s
    /\ \E j \in 1..Len(string_table) :
          IsPoolLine(string_table[j]) /\ ~Malformed(string_table[j][2])
    /\ Len(output) = 1 /\ output[1].state = "UNKNOWN"

\* The identifiers of the pool lines.
PoolIds == {string_table[i][1].s : i \in {j \in 1..Len(string_table) : IsPoolLine(string_table[j])}}

\* The lines with the payload of every line of pool a replaced by p.
ReplacePayload(t, a, p) ==
    [i \in 1..Len(t) |->
        IF IsPoolLine(t[i]) /\ t[i][1].s = a THEN <<t[i][1], p>> ELSE t[i]]

\* C5: for two pool identifiers A and B of a cycle, replacing A's payload
\* by any payload leaves the output of the check of B as it is.
C5_FaultIsolation ==
    (checked /\ item \in PoolIds) =>
        \A a \in PoolIds \ {item} : \A p \in Payloads :
            check_oposs_zpool_iostat(
                item, params, parse_oposs_zpool_iostat(ReplacePayload(string_table, a, p)))
            = output

RecognizedKeys == CountKeys \cup WaitKeys \cup {"alloc", "free"}

\* C6: for a valid pool, every recognized key absent from the payload has
\* its data point emitted with the not-a-number value.
C6_AbsentKeyIsNaN ==
    (checked /\ ValidPool(item)) =>
        \A k \in RecognizedKeys :
            ~HasKey(PoolData(item), k) => ValuesOf(output, MetricOfKey(k)) = {NaN}

\* C7: for a valid pool, a recognized key absent from the payload yields no
\* WARN, CRIT or UNKNOWN result, whatever its levels are.
C7_AbsentKeyNoAlert ==
    (checked /\ ValidPool(item)) =>
        \A k \in RecognizedKeys :
            ~HasKey(PoolData(item), k) =>
                \A r \in ResultsFor(output, MetricOfKey(k)) :
                    r.state \notin {"WARN", "CRIT", "UNKNOWN"}

\* C8: when disk_read_wait or disk_write_wait is absent, the check yields no
\* combined disk wait result and no disk_wait_max data point.
C8_NoPartialMax ==
    (/\ checked /\ ValidPool(item)
     /\ (~HasKey(PoolData(item), "disk_read_wait") \/ ~HasKey(PoolData(item), "disk_write_wait")))
    => /\ ValuesOf(output, "disk_wait_max_s") = {}
       /\ \A j \in ResultsOf(output) :
             output[j].summary.fmt = "{label}: {value}" => output[j].summary.label # "Disk wait time"

\* One component is present and above the configured levels, the other is
\* absent.
C8_Witness ==
    /\ checked /\ ValidPool(item)
    /\ HasFixedRule("disk_wait_levels")
    /\ HasKey(PoolData(item), "disk_read_wait")
    /\ ~HasKey(PoolData(item), "disk_write_wait")
    /\ Lookup(PoolData(item), "disk_read_wait").n * rule["disk_wait_levels"].crit.den
          > rule["disk_wait_levels"].crit.num * NsPerMs

\* C9: when disk_wait_levels is configured and both components are present,
\* the check yields the combined result and the disk_wait_max data point,
\* whose value is the larger component in seconds.
C9_CompositeWhenBothPresent ==
    (/\ checked /\ ValidPool(item)
     /\ HasFixedRule("disk_wait_levels")
     /\ HasKey(PoolData(item), "disk_read_wait") /\ HasKey(PoolData(item), "disk_write_wait"))
    => /\ ValuesOf(output, "disk_wait_max_s")
            = {NormalizeWait(PyInt(Max(Lookup(PoolData(item), "disk_read_wait").n,
                                       Lookup(PoolData(item), "disk_write_wait").n)))}
       /\ Cardinality(ResultsFor(output, "disk_wait_max_s")) = 1

\* alloc and free as the check reads them.
AllocOf(i) == Get(PoolData(i), "alloc", PyInt(0)).n
FreeOf(i) == Get(PoolData(i), "free", PyInt(0)).n

\* C10: the storage utilization alloc / (alloc + free) * 100 under the
\* levels (80, 90), the default parameters, is WARN iff 80 <= utilization
\* < 90 and CRIT iff utilization >= 90; alloc=800, free=200 gives 80% and
\* WARN, alloc=950, free=50 gives 95% and CRIT.
C10_StorageUtilization ==
    /\ rule = NoRule => params["storage_levels"] = Fixed(IntToFloat(80), IntToFloat(90))
    /\ (/\ checked /\ ValidPool(item)
        /\ AllocOf(item) + FreeOf(item) > 0
        /\ params["storage_levels"] = Fixed(IntToFloat(80), IntToFloat(90)))
       => LET alloc == AllocOf(item)
              total == AllocOf(item) + FreeOf(item)
              got == ResultsFor(output, "storage_used_percent")
          IN  /\ Cardinality(got) = 1
              /\ \A r \in got :
                    /\ r.summary.value = FloatMul(TrueDiv(PyInt(alloc), total), Percent)
                    /\ r.state = "WARN" <=>
                          (80 * total <= Percent * alloc /\ Percent * alloc < 90 * total)
                    /\ r.state = "CRIT" <=> Percent * alloc >= 90 * total
                    /\ (alloc = 800 /\ total = 1000) =>
                          (r.state = "WARN" /\ r.summary.value = IntToFloat(80))
                    /\ (alloc = 950 /\ total = 1000) =>
                          (r.state = "CRIT" /\ r.summary.value = IntToFloat(95))

\* Scenario A under the default parameters has been checked.
C10_Witness ==
    /\ checked /\ ValidPool(item)
    /\ rule = NoRule
    /\ AllocOf(item) = 800 /\ FreeOf(item) = 200
    /\ \E r \in ResultsFor(output, "storage_used_percent") : r.state = "WARN"

\* The result line of the storage utilization.
IsStorageLine(y) ==
    /\ y.kind = "Result"
    /\ y.summary.fmt = "{label}: {value}"
    /\ y.summary.label = "Storage utilization"

StorageLines == {j \in 1..Len(output) : IsStorageLine(output[j])}

\* storage_levels holds fixed levels.
StorageLevelsSet ==
    params["storage_levels"].t = "levels" /\ params["storage_levels"].kind = "fixed"

\* C11: for a valid pool with alloc + free > 0 the storage utilization result
\* is the first yield, under every configuration of the levels, followed by
\* its data point; without storage levels its state is OK, and it carries
\* the computed percentage.
C11_StorageFirst ==
    (checked /\ ValidPool(item) /\ AllocOf(item) + FreeOf(item) > 0) =>
        /\ Len(output) >= 2
        /\ IsStorageLine(output[1])
        /\ output[1].summary.value
              = FloatMul(TrueDiv(PyInt(AllocOf(item)), AllocOf(item) + FreeOf(item)), Percent)
        /\ output[2].kind = "Metric"
        /\ output[2].name = "storage_used_percent"
        /\ output[2].value = output[1].summary.value
        /\ ~StorageLevelsSet => output[1].state = "OK"

\* A pool 95% full has been checked with storage_levels None.
C11_Witness ==
    /\ checked /\ ValidPool(item)
    /\ AllocOf(item) = 950 /\ FreeOf(item) = 50
    /\ params["storage_levels"] = PyNone
    /\ IsStorageLine(output[1])
    /\ output[1].state = "OK"

\* C12 as stated: every report of a valid pool holds a storage utilization
\* line, whatever alloc and free are.
C12_StorageLineAlways ==
    (checked /\ ValidPool(item)) => StorageLines # {}

\* C12, amended: the report of a valid pool holds exactly one storage
\* utilization line when alloc + free > 0, and none when alloc and free are
\* absent or sum to 0.
C12_StorageLineIffCapacity ==
    (checked /\ ValidPool(item)) =>
        Cardinality(StorageLines) = IF AllocOf(item) + FreeOf(item) > 0 THEN 1 ELSE 0

\* A pool with alloc and free present and both 0 has been checked.
C12_Witness ==
    /\ checked /\ ValidPool(item)
    /\ HasKey(PoolData(item), "alloc") /\ HasKey(PoolData(item), "free")
    /\ AllocOf(item) + FreeOf(item) = 0
    /\ StorageLines = {}
    /\ output # <<>>

\* The result of a check of an item the section does not hold.
NotFound(i) ==
    Result("UNKNOWN", [fmt |-> "Pool {item} not found", item |-> i, arg |-> PyNone])

\* C13: without a global error, the check of an item that is no key of the
\* section yields exactly one result, UNKNOWN, and no metric; the section is
\* left as parsed, and the check of no pool of the section reports a pool
\* as not found.
C13_UnknownItem ==
    (checked /\ ~HasKey(section, "_parse_error") /\ ~HasKey(section, item)) =>
        /\ output = <<NotFound(item)>>
        /\ section = parse_oposs_zpool_iostat(string_table)
        /\ \A j \in Items \ {item} :
              HasKey(section, j) =>
                  LET other == check_oposs_zpool_iostat(j, params, section)
                  IN  \A n \in 1..Len(other) : \A i \in Items : other[n] # NotFound(i)

\* An item no line names has been checked next to a pool of the section.
C13_Witness ==
    /\ checked
    /\ ~HasKey(section, "_parse_error")
    /\ item = "gone"
    /\ HasKey(section, "tank")
    /\ Len(output) = 1 /\ output[1].state = "UNKNOWN"

\* The pool names whose last line carries a payload that decodes to an object.
DecodedNames ==
    {string_table[i][1].s :
        i \in {j \in 1..Len(string_table) :
                 /\ IsPoolLine(string_table[j])
                 /\ LastOfName(j)
                 /\ ~Malformed(string_table[j][2])}}

\* C14: the discovery yields exactly one service for each pool name whose
\* payload decoded to an object, whatever the name and the keys of the
\* object, and no other service.
C14_DiscoveredIffDecoded ==
    discovered =>
        /\ {services[i].item : i \in 1..Len(services)} = DecodedNames
        /\ Len(services) = Cardinality(DecodedNames)

\* The lines of two fields or more, in their order.
HasTwoFields(line) == Len(line) >= 2
WithoutShort(t) == SelectSeq(t, HasTwoFields)

\* C15: lines of fewer than two fields are skipped: the section is the one
\* parsed from the lines without them, and every key of the section comes
\* from a line of two fields or more, so that a short line, the one-field
\* ERROR line included, creates no pool, no pool error and no global error.
C15_ShortEntriesSkipped ==
    /\ parse_oposs_zpool_iostat(string_table)
          = parse_oposs_zpool_iostat(WithoutShort(string_table))
    /\ parsed =>
          /\ section = parse_oposs_zpool_iostat(WithoutShort(string_table))
          /\ \A n \in 1..Len(section.keys) :
                \E i \in 1..Len(string_table) :
                    \/ IsErrorLine(string_table[i]) /\ section.keys[n] = "_parse_error"
                    \/ IsPoolLine(string_table[i]) /\ section.keys[n] = string_table[i][1].s

\* A one-field ERROR line next to a pool line has been parsed.
C15_Witness ==
    /\ parsed
    /\ \E i \in 1..Len(string_table) : string_table[i] = <<Plain("ERROR")>>
    /\ \E i \in 1..Len(string_table) : IsPoolLine(string_table[i])
    /\ ~HasKey(section, "_parse_error")
    /\ Len(section.keys) = 1

\* Payload keys that are no metric key.
UnrecognizedKeys == {"future_metric", "_error"}

\* The dict d without the key.
DelItem(d, key) ==
    LET keep == {i \in 1..Len(d.keys) : d.keys[i] # key}
        IndexOf(n) == CHOOSE i \in keep : Cardinality({j \in keep : j <= i}) = n
    IN  [keys |-> [n \in 1..Cardinality(keep) |-> d.keys[IndexOf(n)]],
         val |-> [n \in 1..Cardinality(keep) |-> d.val[IndexOf(n)]]]

\* The payload of the checked pool with an unrecognized key added, changed
\* or removed.
UnrecognizedVariants ==
    UNION {{SetItem(PoolData(item), k, PyInt(7)), SetItem(PoolData(item), k, PyInt(8)),
            DelItem(PoolData(item), k)} : k \in UnrecognizedKeys}

\* C16: for a valid pool, adding, removing or changing a payload key that is
\* no recognized metric key changes neither the output of the check nor the
\* discovery.
C16_UnrecognizedKeysIgnored ==
    (checked /\ ValidPool(item)) =>
        \A d \in UnrecognizedVariants :
            LET changed == SetItem(section, item, PyDict(d))
            IN  /\ check_oposs_zpool_iostat(item, params, changed) = output
                /\ discover_oposs_zpool_iostat(changed) = discover_oposs_zpool_iostat(section)

\* C17: every check completes with a report: no exception ends it, also
\* when a recognized key of the payload holds null or a string.
C17_NoAbortingPath ==
    checked => (output # <<>> /\ \A n \in 1..Len(output) : output[n].kind # "Raise")

\* The parameter that decides whether a change of the key can reach a
\* result: its own levels, and disk_wait_levels for the two components of
\* the combined disk wait.
DecidingParam(key) ==
    IF key \in {"disk_read_wait", "disk_write_wait"} THEN "disk_wait_levels"
    ELSE ParamOfKey(key)

\* The lowest and the highest value of the model for the key.
ExtremeValues(key) == IF key \in WaitKeys THEN {0, 1000000} ELSE {0, MaxCount}

IsResult(y) == y.kind = "Result"

\* C18: for a valid pool, a metric other than the storage ones whose levels
\* are None yields its data point and no result, and a change of its value
\* changes no result of the report; the two components of the combined disk
\* wait are silent in this way when disk_wait_levels is None.
C18_UnthresholdedSilent ==
    (checked /\ ValidPool(item)) =>
        \A k \in CountKeys \cup WaitKeys :
            ~Truthy(params[DecidingParam(k)]) =>
                /\ ResultsFor(output, MetricOfKey(k)) = {}
                /\ Cardinality({m \in MetricsOf(output) : output[m].name = MetricOfKey(k)}) = 1
                /\ \A v \in ExtremeValues(k) :
                      SelectSeq(check_oposs_zpool_iostat(item, params,
                                    SetItem(section, item,
                                            PyDict(SetItem(PoolData(item), k, PyInt(v))))),
                                IsResult)
                      = SelectSeq(output, IsResult)

\* A report with a WARN or CRIT result has been produced while read_ops,
\* present in the payload, has no levels.
C18_Witness ==
    /\ checked /\ ValidPool(item)
    /\ params["read_ops_levels"] = PyNone
    /\ HasKey(PoolData(item), "read_ops")
    /\ ValuesOf(output, "read_ops") = {Lookup(PoolData(item), "read_ops")}
    /\ \E n \in ResultsOf(output) : output[n].state \in {"WARN", "CRIT"}

\* C19: a result with state UNKNOWN is yielded only when a global error is
\* recorded, the item is not in the section or the pool's payload is
\* malformed, and then it is the only yield; for a valid pool no result is
\* UNKNOWN, whatever the values and the levels.
C19_UnknownOnlyFromMissingData ==
    checked =>
        \A n \in ResultsOf(output) :
            output[n].state = "UNKNOWN" =>
                /\ Len(output) = 1
                /\ \/ HasKey(section, "_parse_error")
                   \/ ~HasKey(section, item)
                   \/ HasKey(PoolData(item), "_error")

\* A valid pool has been checked with fixed levels on a wait time that is
\* absent from its payload.
C19_Witness ==
    /\ checked /\ ValidPool(item)
    /\ \E k \in LevelledWaitKeys :
          /\ HasFixedRule(ParamOfKey(k))
          /\ ~HasKey(PoolData(item), k)
          /\ ValuesOf(output, MetricOfKey(k)) = {NaN}
    /\ \A n \in ResultsOf(output) : output[n].state # "UNKNOWN"

\* The data points of the name in the output.
PointsOf(name) == {m \in MetricsOf(output) : output[m].name = name}

\* C20: for a valid pool each metric of a recognized key is emitted exactly
\* once, with the not-a-number value when the key is absent;
\* storage_used_percent and disk_wait_max_s are each emitted at most once,
\* and no other data point is emitted.
C20_FullMetricSet ==
    (checked /\ ValidPool(item)) =>
        /\ \A k \in RecognizedKeys :
              /\ Cardinality(PointsOf(MetricOfKey(k))) = 1
              /\ ~HasKey(PoolData(item), k) =>
                    \A m \in PointsOf(MetricOfKey(k)) : output[m].value = NaN
        /\ Cardinality(PointsOf("storage_used_percent")) <= 1
        /\ Cardinality(PointsOf("disk_wait_max_s")) <= 1
        /\ \A m \in MetricsOf(output) :
              output[m].name \in {MetricOfKey(k) : k \in RecognizedKeys}
                                 \cup {"storage_used_percent", "disk_wait_max_s"}

\* The result lines that are not the storage utilization line.
NonStorageLines == {j \in ResultsOf(output) : ~IsStorageLine(output[j])}

\* The data points that carry fixed levels, the storage one apart.
ThresholdedPoints ==
    {m \in MetricsOf(output) :
        output[m].name # "storage_used_percent" /\ output[m].levels.t = "levels"}

\* C21: for a valid pool, every result line of a metric other than the
\* storage utilization belongs to a data point with a threshold and has a
\* state other than OK, and every such data point at or above its warning
\* level has its line: a thresholded metric below its warning level has none.
C21_SummaryLineIffNotOk ==
    (checked /\ ValidPool(item)) =>
        /\ \A j \in NonStorageLines :
              /\ output[j].state # "OK"
              /\ j < Len(output)
              /\ (j + 1) \in ThresholdedPoints
        /\ \A m \in ThresholdedPoints :
              NumGe(output[m].value, output[m].levels.warn) =>
                  (m > 1 /\ (m - 1) \in NonStorageLines)

\* C22: for a valid pool, every wait time key present with the value v_ns
\* has the data point v_ns / 1e9 (the float nearest to the quotient), the
\* data point 0 when v_ns is 0, and never not-a-number; an absent wait time
\* key has the data point not-a-number and never 0.
C22_WaitNormalization ==
    (checked /\ ValidPool(item)) =>
        \A k \in WaitKeys :
            LET got == ValuesOf(output, MetricOfKey(k))
            IN  IF HasKey(PoolData(item), k)
                THEN LET v_ns == Lookup(PoolData(item), k).n
                     IN  /\ got = {IF v_ns = 0 THEN PyInt(0)
                                   ELSE TrueDiv(PyInt(v_ns), NsPerSecond)}
                         /\ NaN \notin got
                ELSE /\ got = {NaN}
                     /\ got \cap {PyInt(0), FloatZero} = {}

\* A wait time measured as 0 has been checked under fixed levels, next to
\* an absent one.
C22_Witness ==
    /\ checked /\ ValidPool(item)
    /\ \E k \in LevelledWaitKeys :
          /\ HasFixedRule(ParamOfKey(k))
          /\ HasKey(PoolData(item), k)
          /\ Lookup(PoolData(item), k).n = 0
          /\ ValuesOf(output, MetricOfKey(k)) = {PyInt(0)}
    /\ \E k \in WaitKeys :
          ~HasKey(PoolData(item), k) /\ ValuesOf(output, MetricOfKey(k)) = {NaN}

\* The keys whose value is emitted as it is.
PassThroughKeys == CountKeys \cup {"alloc", "free"}

\* C23: for a valid pool, the data point of every operation, throughput,
\* capacity and queue depth key present in the payload is the payload's
\* value; under fixed levels the data point carries the levels as the rule
\* holds them, and the result before it renders the payload's value and has
\* the state the comparison of the payload's value with those levels gives.
C23_PassThrough ==
    (checked /\ ValidPool(item)) =>
        /\ \A k \in PassThroughKeys :
              HasKey(PoolData(item), k) =>
                  ValuesOf(output, MetricOfKey(k)) = {Lookup(PoolData(item), k)}
        /\ \A k \in CountKeys :
              (HasKey(PoolData(item), k) /\ HasFixedRule(ParamOfKey(k))) =>
                  LET raw == Lookup(PoolData(item), k)
                      warn == rule[ParamOfKey(k)].warn.num
                      crit == rule[ParamOfKey(k)].crit.num
                  IN  \A m \in PointsOf(MetricOfKey(k)) :
                          /\ output[m].levels = Fixed(PyInt(warn), PyInt(crit))
                          /\ m > 1
                          /\ output[m - 1].kind = "Result"
                          /\ output[m - 1].summary.value = raw
                          /\ output[m - 1].state = Expected(raw.n >= warn, raw.n >= crit)

\* A queue depth at its warning level, below the critical one, has been
\* checked.
C23_Witness ==
    /\ checked /\ ValidPool(item)
    /\ \E i \in 1..Len(queue_depth_metrics) :
          LET k == queue_depth_metrics[i][1]
          IN  /\ HasKey(PoolData(item), k) /\ HasFixedRule(ParamOfKey(k))
              /\ Lookup(PoolData(item), k).n = rule[ParamOfKey(k)].warn.num
              /\ rule[ParamOfKey(k)].warn.num < rule[ParamOfKey(k)].crit.num
              /\ ValuesOf(output, k) = {Lookup(PoolData(item), k)}
              /\ \E r \in ResultsFor(output, k) : r.state = "WARN"

\* C24: whatever checks came before and in whatever order, the section and
\* the parameters are those the cycle started with, and the output of the
\* last check is the output of the check of its item alone on the section
\* as parsed.
C24_OrderIndependent ==
    /\ parsed => section = parse_oposs_zpool_iostat(string_table)
    /\ params = MergeParams(rule)
    /\ checked =>
          /\ item = evaluated[Len(evaluated)]
          /\ output = check_oposs_zpool_iostat(item, MergeParams(rule),
                                               parse_oposs_zpool_iostat(string_table))

\* Two valid pools have been checked one after the other, the last one
\* with a full report.
C24_Witness ==
    /\ checked
    /\ Len(evaluated) = 2
    /\ evaluated[1] # evaluated[2]
    /\ ValidPool(evaluated[1]) /\ ValidPool(evaluated[2])
    /\ MetricsOf(output) # {}

\* The three error results of the check.
IsGlobalError(y) ==
    y.kind = "Result" /\ y.state = "UNKNOWN" /\ y.summary.fmt = "Parse error: {arg}"
IsNotFound(y) ==
    y.kind = "Result" /\ y.state = "UNKNOWN" /\ y.summary.fmt = "Pool {item} not found"
IsPoolError(y) ==
    y.kind = "Result" /\ y.state = "UNKNOWN" /\ y.summary.fmt = "Pool {item} error: {arg}"

\* C25: the check tests the global error first, then the item, then the
\* payload error of the pool, and yields the result of the first that holds
\* and nothing else: under a global error the one result is the global
\* error, also for an item the section does not hold and for a malformed
\* payload; when none holds the yields are those of the evaluation of the
\* metrics, none of them an error result.
C25_ErrorPrecedence ==
    checked =>
        IF HasKey(section, "_parse_error")
        THEN /\ Len(output) = 1
             /\ IsGlobalError(output[1])
             /\ output[1].summary.arg = Lookup(section, "_parse_error")
        ELSE IF ~HasKey(section, item)
        THEN /\ Len(output) = 1
             /\ IsNotFound(output[1])
             /\ output[1].summary.item = item
        ELSE IF HasKey(PoolData(item), "_error")
        THEN /\ Len(output) = 1
             /\ IsPoolError(output[1])
             /\ output[1].summary.item = item
             /\ output[1].summary.arg = Lookup(PoolData(item), "_error")
        ELSE /\ output = CheckBody(PoolData(item), params)
             /\ \A n \in 1..Len(output) :
                   ~IsGlobalError(output[n]) /\ ~IsNotFound(output[n])
                       /\ ~IsPoolError(output[n])

\* Under a global error, an item the lines do not name has been checked
\* after a pool with a malformed payload.
C25_Witness ==
    /\ checked
    /\ HasKey(section, "_parse_error")
    /\ Len(evaluated) = 2
    /\ HasKey(section, evaluated[1])
    /\ Lookup(section, evaluated[1]).t = "dict"
    /\ HasKey(Lookup(section, evaluated[1]).d, "_error")
    /\ ~HasKey(section, item)
    /\ Len(output) = 1 /\ IsGlobalError(output[1])

\* C26: a check yields the global error only when a line of the cycle is an
\* ERROR entry of two fields or more, and the report of an item is the same
\* without any pool line of another identifier, a name that starts with an
\* underscore included.
C26_GlobalErrorOnlyFromErrorEntry ==
    checked =>
        /\ (\E n \in 1..Len(output) : IsGlobalError(output[n])) =>
              \E i \in 1..Len(string_table) : IsErrorLine(string_table[i])
        /\ \A i \in 1..Len(string_table) :
              (IsPoolLine(string_table[i]) /\ string_table[i][1].s # item) =>
                  check_oposs_zpool_iostat(
                      item, params, parse_oposs_zpool_iostat(RemoveAt(string_table, i)))
                  = output

\* The lines the parser takes, and whether line i is the last one of its
\* identifier among them.
TakenLines == {i \in 1..Len(string_table) : HasTwoFields(string_table[i])}
LastOfIdentifier(i) ==
    \A j \in TakenLines : j > i => string_table[j][1] # string_table[i][1]

\* C27: the section holds one entry for each identifier of the lines taken,
\* and the entry of an identifier is what its last line alone is parsed to:
\* the payload or the mark of the last line of a pool name, the message of
\* the last ERROR entry; a line of another identifier does not replace it.
C27_LastWriterWins ==
    parsed =>
        /\ \A i \in TakenLines :
              LastOfIdentifier(i) =>
                  LET alone == ParseLine(EmptyDict, string_table[i])
                  IN  /\ HasKey(section, alone.keys[1])
                      /\ Lookup(section, alone.keys[1]) = alone.val[1]
        /\ Len(section.keys) = Cardinality({string_table[i][1] : i \in TakenLines})

\* The lines without the ERROR entries, in their order.
NotErrorLine(line) == ~IsErrorLine(line)
WithoutErrors(t) == SelectSeq(t, NotErrorLine)

\* C28: an ERROR entry leaves the parsing of the pool lines before and after
\* it as it is: every pool identifier has its entry in the section, equal to
\* the entry parsed from the lines without the ERROR entries (the key
\* _parse_error, which holds the error, apart), and the discovery yields the
\* services it yields for the lines without the ERROR entries; the check of
\* each of these services yields one result, UNKNOWN, when the lines hold an
\* ERROR entry.
C28_ErrorKeepsDiscovery ==
    /\ discover_oposs_zpool_iostat(parse_oposs_zpool_iostat(string_table))
          = discover_oposs_zpool_iostat(parse_oposs_zpool_iostat(WithoutErrors(string_table)))
    /\ \A n \in PoolIds :
          /\ HasKey(parse_oposs_zpool_iostat(string_table), n)
          /\ n # "_parse_error" =>
                Lookup(parse_oposs_zpool_iostat(string_table), n)
                = Lookup(parse_oposs_zpool_iostat(WithoutErrors(string_table)), n)
    /\ discovered =>
          services
          = discover_oposs_zpool_iostat(parse_oposs_zpool_iostat(WithoutErrors(string_table)))
    /\ (/\ checked
        /\ \E i \in 1..Len(string_table) : IsErrorLine(string_table[i])
        /\ Service(item) \in
              {discover_oposs_zpool_iostat(parse_oposs_zpool_iostat(string_table))[s] :
                  s \in 1..Len(discover_oposs_zpool_iostat(
                                   parse_oposs_zpool_iostat(string_table)))})
       => /\ Len(output) = 1
          /\ output[1].kind = "Result"
          /\ output[1].state = "UNKNOWN"

\* A pool line followed by an ERROR entry: the pool has been discovered and
\* its check has reported UNKNOWN.
C28_Witness ==
    /\ discovered /\ checked
    /\ Len(string_table) = 2
    /\ IsPoolLine(string_table[1])
    /\ IsErrorLine(string_table[2])
    /\ services = <<Service(item)>>
    /\ Len(output) = 1 /\ output[1].state = "UNKNOWN"

====
